---- MODULE Spec2Model ----
(***************************************************************************)
(* Model of copilot_session_restorer.py: the wizard (run_wizard) and the   *)
(* functions it calls, over an explicit model of the workspaceStorage      *)
(* directory tree.                                                         *)
(*                                                                         *)
(* Text (paths, URIs, descriptor contents, needles) is a sequence of       *)
(* tokens; a token is one character, or one of the fixed multi-character   *)
(* pieces "file:///", "%3A", "%3a", "%20", ".code-workspace".              *)
(* Optional values are sequences of length 0 (None) or 1.                  *)
(* Timestamps are naturals; datetimes are naturals counted from            *)
(* datetime.min.                                                           *)
(***************************************************************************)
EXTENDS Integers, Sequences, FiniteSets, TLC

VARIABLES
    storage,        \* workspaceStorage: hash id -> hash directory
    cwd,            \* working directory: backups/ and *.recovered.md
    args,           \* command line of main(): the flags given to run_wizard
    pc,             \* position inside run_wizard / reindex_state_db
    exitCode,       \* process exit status (-1 while running)
    needles,        \* run_wizard local: needle list
    hashes,         \* run_wizard local: result of find_hashes_by_needles
    target_hash,    \* run_wizard local ("" until chosen)
    source_hashes,  \* run_wizard local
    tmap,           \* run_wizard local: target_session_map
    rows,           \* run_wizard local: (n, item, status) rows
    default_sel,    \* run_wizard local
    selected,       \* run_wizard local: the items to copy
    index,          \* reindex_state_db local: result of build_index
    typed,          \* what the operator typed at the last prompt
    wsinput         \* workspace_input and what the filesystem holds at it

vars == <<storage, cwd, args, pc, exitCode, needles, hashes, target_hash,
          source_hashes, tmap, rows, default_sel, selected, index, typed,
          wsinput>>

-----------------------------------------------------------------------------
(* Bounds *)

MaxTime == 2            \* file modification timestamps are 1..MaxTime
MaxSelLen == 2          \* parts of a typed selection list
MaxFolders == 2         \* entries of "folders" in a .code-workspace document

Times == 1..MaxTime

(* Program constants *)
DatetimeMin == 0        \* datetime.min
EpochDt == 1            \* datetime.fromtimestamp(0), later than datetime.min

HashIds == {"h1", "h2", "h3"}
ScanOrder == <<"h1", "h2", "h3">>      \* workspace_storage.iterdir()

-----------------------------------------------------------------------------
(* Sequences *)

Range(s) == {s[i] : i \in 1..Len(s)}

RECURSIVE Flatten(_)
Flatten(ss) == IF ss = <<>> THEN <<>> ELSE Head(ss) \o Flatten(Tail(ss))

\* "Unique preserving order": keep the first occurrence of every element.
RECURSIVE UniqueKeepOrder(_)
UniqueKeepOrder(s) ==
    IF s = <<>> THEN <<>>
    ELSE LET r == UniqueKeepOrder(SubSeq(s, 1, Len(s) - 1))
             x == s[Len(s)]
         IN IF x \in Range(r) THEN r ELSE Append(r, x)

\* A descending sort that reverses the elements of equal keys
SortedDescBadUnstable(seq, keys) ==
    LET n == Len(seq)
        pos(i) == 1 + Cardinality({j \in 1..n :
                        keys[j] > keys[i] \/ (keys[j] = keys[i] /\ j > i)})
    IN [k \in 1..n |-> seq[CHOOSE i \in 1..n : pos(i) = k]]

\* list.sort(key=..., reverse=True): stable, descending. keys[i] is the key
\* of seq[i]; equal keys keep their original relative order.
SortedDesc(seq, keys) ==
    LET n == Len(seq)
        pos(i) == 1 + Cardinality({j \in 1..n :
                        keys[j] > keys[i] \/ (keys[j] = keys[i] /\ j < i)})
    IN [k \in 1..n |-> seq[CHOOSE i \in 1..n : pos(i) = k]]

-----------------------------------------------------------------------------
(* Text *)

\* str.lower() on one token
LowerTok(c) ==
    CASE c = "C" -> "c"
      [] c = "P" -> "p"
      [] c = "K" -> "k"
      [] c = "%3A" -> "%3a"
      [] c = ".CODE-WORKSPACE" -> ".code-workspace"
      [] OTHER -> c

StrLower(s) == [i \in 1..Len(s) |-> LowerTok(s[i])]

\* not (n and n.strip()): empty or whitespace only
IsBlankStr(s) == \A i \in 1..Len(s) : s[i] = " "

\* sub in s
Contains(sub, s) ==
    \E i \in 0..(Len(s) - Len(sub)) : \A j \in 1..Len(sub) : s[i + j] = sub[j]

\* s.strip(chars) for a one-character set
RECURSIVE StripTok(_, _)
StripTok(s, c) ==
    IF s = <<>> THEN s
    ELSE IF Head(s) = c THEN StripTok(Tail(s), c)
    ELSE IF s[Len(s)] = c THEN StripTok(SubSeq(s, 1, Len(s) - 1), c)
    ELSE s

\* s.replace("\\", "/")
ReplaceBackslash(s) == [i \in 1..Len(s) |-> IF s[i] = "\\" THEN "/" ELSE s[i]]

-----------------------------------------------------------------------------
(* Times *)

dt_from_ts(ts) == EpochDt + ts

-----------------------------------------------------------------------------
(* Needle Builder *)

\* A pathlib path is its string. Windows drive paths: <<drive, ":", ...>>.
HasDrive(s) == Len(s) >= 2 /\ s[2] = ":"

\* Path.is_absolute()
IsAbsolute(s) == Len(s) >= 3 /\ s[2] = ":" /\ s[3] \in {"\\", "/"}

\* str(Path(s)): separators become backslashes
PathStr(s) == [i \in 1..Len(s) |-> IF s[i] = "/" THEN "\\" ELSE s[i]]

\* urllib quoting done by Path.as_uri(): a space becomes %20
QuoteTok(c) == IF c = " " THEN "%20" ELSE c

\* Path.as_uri() of an absolute drive path; <<>> when it raises (relative)
AsUri(s) ==
    IF IsAbsolute(s)
    THEN << <<"file:///", s[1], ":">> \o
            [i \in 1..(Len(s) - 2) |-> QuoteTok(ReplaceBackslash(s)[i + 2])] >>
    ELSE <<>>

to_file_uri(s) == AsUri(s)[1]

win_uri_variants(s) ==
    LET drive == IF HasDrive(s) THEN <<s[1]>> ELSE <<>>
        rest == IF HasDrive(s) THEN SubSeq(s, 3, Len(s)) ELSE s
        rest_slash == ReplaceBackslash(rest)
        manual == IF drive # <<>>
                  THEN << <<"file:///", drive[1], ":">> \o rest_slash,
                          <<"file:///", LowerTok(drive[1]), ":">> \o rest_slash,
                          <<"file:///", LowerTok(drive[1]), "%3A">> \o rest_slash,
                          <<"file:///", LowerTok(drive[1]), "%3a">> \o rest_slash >>
                  ELSE <<>>
        variants == AsUri(s) \o manual
    IN UniqueKeepOrder(SelectSeq(variants, LAMBDA v : v # <<>>))

\* The token "NUL" is the character U+0000, which a JSON string can hold
HasNul(s) == \E i \in 1..Len(s) : s[i] = "NUL"

\* (workspace_file.parent / p).resolve(): the joined path; [raised, path],
\* raised = the ValueError ("embedded null byte") of a path holding U+0000
ResolveRelative(parent, path) ==
    [raised |-> HasNul(path), path |-> parent \o <<"\\">> \o PathStr(path)]

\* A .code-workspace document: [ok, isdict, haslist, folders]; ok = it parses
\* as JSON, isdict = the value is an object, haslist = "folders" is a list.
\* A folder entry: [isdict, uri, path]; uri/path are <<>> when the key is
\* absent or not a string.
\* One iteration of the loop over folders: [raised, needles]
FolderNeedles(f, parent) ==
    IF ~f.isdict THEN [raised |-> FALSE, needles |-> <<>>]
    ELSE IF ~IsBlankStr(f.uri)
    THEN [raised |-> FALSE, needles |-> << StripTok(f.uri, " ") >>]
    ELSE IF ~IsBlankStr(f.path)
    THEN IF ~IsAbsolute(f.path) /\ ResolveRelative(parent, f.path).raised
         THEN [raised |-> TRUE, needles |-> <<>>]
         ELSE LET p == IF IsAbsolute(f.path) THEN PathStr(f.path)
                       ELSE ResolveRelative(parent, f.path).path
              IN [raised |-> FALSE,
                  needles |-> <<p, ReplaceBackslash(p)>> \o win_uri_variants(p)]
    ELSE [raised |-> FALSE, needles |-> <<>>]

\* [raised, needles]: raised = an exception of the loop leaves the function
load_code_workspace_folders(doc, parent) ==
    IF ~doc.ok \/ ~doc.isdict \/ ~doc.haslist
    THEN [raised |-> FALSE, needles |-> <<>>]
    ELSE LET per == [i \in 1..Len(doc.folders) |->
                        FolderNeedles(doc.folders[i], parent)]
         IN IF \E i \in 1..Len(per) : per[i].raised
            THEN [raised |-> TRUE, needles |-> <<>>]
            ELSE [raised |-> FALSE,
                  needles |-> UniqueKeepOrder(
                      SelectSeq(Flatten([i \in 1..Len(per) |-> per[i].needles]),
                                LAMBDA n : n # <<>>))]

\* resolve_input_path: strip whitespace, then double and single quotes. The
\* paths typed are absolute, so expanduser().resolve() leaves them as they are.
resolve_input_path(p) == PathStr(StripTok(StripTok(StripTok(p, " "), "\""), "'"))

\* Path.suffix.lower() == ".code-workspace"
HasWorkspaceSuffix(s) == s # <<>> /\ LowerTok(s[Len(s)]) = ".code-workspace"

\* Path.parent of a file path: everything before the last separator
RECURSIVE ParentOf(_)
ParentOf(s) ==
    IF s = <<>> THEN s
    ELSE IF s[Len(s)] = "\\" THEN SubSeq(s, 1, Len(s) - 1)
    ELSE ParentOf(SubSeq(s, 1, Len(s) - 1))

\* A workspace input: [raw, kind, doc]: what was typed, what the filesystem
\* holds there ("file", "dir", "missing") and, for a file, its JSON document.
is_code_workspace_file(s, kind) == kind = "file" /\ HasWorkspaceSuffix(s)

\* [raised, needles]
build_needles_for_workspace_input(s, kind, doc) ==
    IF is_code_workspace_file(s, kind)
    THEN LET fl == load_code_workspace_folders(doc, ParentOf(s))
         IN [raised |-> fl.raised,
             needles |-> IF fl.raised THEN <<>>
                         ELSE <<s, ReplaceBackslash(s), to_file_uri(s),
                                StrLower(to_file_uri(s))>> \o fl.needles]
    ELSE IF kind = "dir"
    THEN [raised |-> FALSE,
          needles |-> <<s, ReplaceBackslash(s), to_file_uri(s),
                        StrLower(to_file_uri(s))>> \o win_uri_variants(s)]
    ELSE [raised |-> FALSE, needles |-> <<s, ReplaceBackslash(s), StrLower(s)>>]

-----------------------------------------------------------------------------
(* Storage *)

\* A hash directory:
\*   ws   : [exists, text]                        workspace.json
\*   db   : [exists, mtime, table, haskey, value] state.vscdb (ItemTable and
\*          its chat.ChatSessionStore.index row)
\*   baks : set of db records                     state.vscdb.bak-<stamp>
\*   chat : [exists, files]                       chatSessions/
\* A file of chatSessions: [stem, ext, mtime, doc]; doc is the JSON document
\* of a .json file: [ok, sessionId, customTitle, title, computedTitle,
\* requests] (ok = parses to an object; "" = key absent, not a string or
\* empty; requests = -1 when absent or not a list, else its length).

NoDoc == [ok |-> FALSE, sessionId |-> "", customTitle |-> "", title |-> "",
          computedTitle |-> "", requests |-> -1]
NoDb == [exists |-> FALSE, mtime |-> 0, table |-> FALSE, haskey |-> FALSE,
         value |-> <<>>]
NoWs == [exists |-> FALSE, text |-> <<>>]
NoChat == [exists |-> FALSE, files |-> {}]

\* d / "state.vscdb" exists
DbExists(st, h) == st[h].db.exists
ChatExists(st, h) == st[h].chat.exists

\* sum(1 for _ in chat_dir.iterdir() if _.is_file()), 0 without the folder
ChatFiles(st, h) == IF ChatExists(st, h) THEN Cardinality(st[h].chat.files) ELSE 0

-----------------------------------------------------------------------------
(* Hash Scanner and Hash Ranker *)

NonBlankNeedles(ns) == SelectSeq(ns, LAMBDA n : ~IsBlankStr(n))

\* The match without the two lower() calls
TextMatchesBadCaseSensitive(text, needles2) ==
    \E i \in 1..Len(needles2) : Contains(needles2[i], text)

\* any(n.lower() in content.lower() for n in needles2)
TextMatches(text, needles2) ==
    \E i \in 1..Len(needles2) : Contains(StrLower(needles2[i]), StrLower(text))

HashInfoOf(st, h) ==
    [hash |-> h,
     state_db_mtime |-> IF DbExists(st, h) THEN <<dt_from_ts(st[h].db.mtime)>>
                        ELSE <<>>,
     chat_files |-> ChatFiles(st, h)]

\* x.state_db_mtime or datetime.min
MtimeKey(x) == IF x.state_db_mtime = <<>> THEN DatetimeMin ELSE x.state_db_mtime[1]

\* The hits in directory-scan order, before the sort
ScanHits(st, needles2) ==
    LET hit(h) == st[h].ws.exists /\ TextMatches(st[h].ws.text, needles2)
        hs == SelectSeq(ScanOrder, hit)
    IN [i \in 1..Len(hs) |-> HashInfoOf(st, hs[i])]

\* [raised, hits]: raised = ValueError("No needles")
find_hashes_by_needles(st, ns) ==
    LET needles2 == NonBlankNeedles(ns)
        hits == ScanHits(st, needles2)
    IN IF needles2 = <<>> THEN [raised |-> TRUE, hits |-> <<>>]
       ELSE [raised |-> FALSE,
             hits |-> SortedDesc(hits, [i \in 1..Len(hits) |-> MtimeKey(hits[i])])]

-----------------------------------------------------------------------------
(* Session Inventory and Reconciliation Engine *)

\* chat_dir.iterdir(): the files of a folder, listed by name
NameOrder == << <<"a", "json">>, <<"a", "jsonl">>, <<"b", "json">>,
                <<"b", "jsonl">>, <<"n", "txt">> >>

FileNamed(files, nm) == CHOOSE f \in files : <<f.stem, f.ext>> = nm

DirList(files) ==
    LET present == SelectSeq(NameOrder,
                       LAMBDA nm : \E f \in files : <<f.stem, f.ext>> = nm)
    IN [i \in 1..Len(present) |-> FileNamed(files, present[i])]

IsBlankTitle(v) == v \in {"", " "}

\* The first of customTitle, title, computedTitle that is a non-blank string
FirstTitle(doc, default) ==
    IF ~IsBlankTitle(doc.customTitle) THEN doc.customTitle
    ELSE IF ~IsBlankTitle(doc.title) THEN doc.title
    ELSE IF ~IsBlankTitle(doc.computedTitle) THEN doc.computedTitle
    ELSE default

\* (session_id, title); session_id "" stands for None. creation_ms feeds the
\* CreatedAt column only and is left out.
try_parse_session_meta_json(f) ==
    IF ~f.doc.ok THEN [session_id |-> "", title |-> ""]
    ELSE [session_id |-> f.doc.sessionId, title |-> FirstTitle(f.doc, "")]

\* The identifier a session file is known by: the stem, or the sessionId
\* embedded in a .json file
SessionIdOf(f) ==
    IF f.ext = "json" /\ try_parse_session_meta_json(f).session_id # ""
    THEN try_parse_session_meta_json(f).session_id
    ELSE f.stem

stat_updated(f) == dt_from_ts(f.mtime)

SessionItemOf(h, f) ==
    [hash |-> h,
     session_id |-> SessionIdOf(f),
     title |-> IF f.ext = "json" THEN try_parse_session_meta_json(f).title ELSE "",
     updated |-> stat_updated(f),
     ext |-> f.ext,
     name |-> <<f.stem, f.ext>>]

IsSessionFile(f) == f.ext \in {"json", "jsonl"}

session_inventory(st, hs) ==
    LET perHash(h) ==
            IF ~ChatExists(st, h) THEN <<>>
            ELSE LET fs == SelectSeq(DirList(st[h].chat.files), IsSessionFile)
                 IN [i \in 1..Len(fs) |-> SessionItemOf(h, fs[i])]
        items == Flatten([i \in 1..Len(hs) |-> perHash(hs[i])])
    IN SortedDesc(items, [i \in 1..Len(items) |-> items[i].updated])

\* A dict as a function; m[sid] = updated, a later file replacing an earlier
MapPut(m, k, v) == [x \in (DOMAIN m) \cup {k} |-> IF x = k THEN v ELSE m[x]]

RECURSIVE TargetMapOf(_)
TargetMapOf(fs) ==
    IF fs = <<>> THEN <<>>
    ELSE LET f == fs[Len(fs)]
         IN MapPut(TargetMapOf(SubSeq(fs, 1, Len(fs) - 1)),
                   SessionIdOf(f), stat_updated(f))

target_session_map(st, h) ==
    IF ~ChatExists(st, h) THEN <<>>
    ELSE TargetMapOf(SelectSeq(DirList(st[h].chat.files), IsSessionFile))

\* status_for with >= for >
status_forBadNotStrict(item, target_map) ==
    IF item.session_id \notin DOMAIN target_map THEN "MissingInTarget"
    ELSE IF item.updated >= target_map[item.session_id] THEN "NewerInSource"
    ELSE "AlreadyInTarget"

status_for(item, target_map) ==
    IF item.session_id \notin DOMAIN target_map THEN "MissingInTarget"
    ELSE IF item.updated > target_map[item.session_id] THEN "NewerInSource"
    ELSE "AlreadyInTarget"

-----------------------------------------------------------------------------
(* Prompts *)

\* What the operator types at a number prompt: [kind, n] with kind "empty",
\* "int" or "junk"
choose_int(raw, default, min_v, max_v) ==
    IF raw.kind # "int" THEN default
    ELSE IF raw.n > max_v THEN max_v
    ELSE IF raw.n < min_v THEN min_v
    ELSE raw.n

\* What the operator types at the selection prompt: [kind, parts]; kind is
\* "enter", "all" or "list"; a part is the number typed, or -1 for a part
\* that is not all digits
parse_selection(raw, max_n) ==
    IF raw.kind = "all" THEN [i \in 1..max_n |-> i]
    ELSE UniqueKeepOrder(SelectSeq(raw.parts, LAMBDA n : 1 <= n /\ n <= max_n))

-----------------------------------------------------------------------------
(* Index Builder *)

MsPerSecond == 1000

file_mtime_ms(f) == f.mtime * MsPerSecond

JsonEntry(f) ==
    LET sid == IF f.doc.ok /\ f.doc.sessionId # "" THEN f.doc.sessionId ELSE f.stem
    IN [sessionId |-> sid,
        title |-> IF f.doc.ok THEN FirstTitle(f.doc, "New Chat") ELSE "New Chat",
        lastMessageDate |-> file_mtime_ms(f),
        isEmpty |-> f.doc.ok /\ f.doc.requests = 0,
        isExternal |-> FALSE]

JsonlEntry(f) ==
    [sessionId |-> f.stem, title |-> "New Chat",
     lastMessageDate |-> file_mtime_ms(f), isEmpty |-> FALSE, isExternal |-> FALSE]

\* The .jsonl loop without its "if session_id in entries: continue"
IndexStepBadNoSkip(entries, f) ==
    IF f.ext = "json" THEN MapPut(entries, JsonEntry(f).sessionId, JsonEntry(f))
    ELSE MapPut(entries, f.stem, JsonlEntry(f))

\* One iteration of either loop of build_index
IndexStep(entries, f) ==
    IF f.ext = "json" THEN MapPut(entries, JsonEntry(f).sessionId, JsonEntry(f))
    ELSE IF f.stem \in DOMAIN entries THEN entries
    ELSE MapPut(entries, f.stem, JsonlEntry(f))

RECURSIVE IndexFold(_)
IndexFold(fs) ==
    IF fs = <<>> THEN <<>>
    ELSE IndexStep(IndexFold(SubSeq(fs, 1, Len(fs) - 1)), fs[Len(fs)])

\* sorted(chat_dir.glob("*.json")) then sorted(chat_dir.glob("*.jsonl"))
IndexOrder(files) ==
    SelectSeq(DirList(files), LAMBDA f : f.ext = "json")
    \o SelectSeq(DirList(files), LAMBDA f : f.ext = "jsonl")

\* [order, entries]: the files in the order the loops read them, and the
\* "entries" of the returned {"version": 1, "entries": ...}
build_index(files) ==
    [order |-> [i \in 1..Len(IndexOrder(files)) |->
                   <<IndexOrder(files)[i].stem, IndexOrder(files)[i].ext>>],
     entries |-> IndexFold(IndexOrder(files))]

NoIndex == [order |-> <<>>, entries |-> <<>>]

-----------------------------------------------------------------------------
(* Inputs of the wizard *)

Doc(sid, title, requests) ==
    [ok |-> TRUE, sessionId |-> sid, customTitle |-> "", title |-> title,
     computedTitle |-> "", requests |-> requests]

SessionFile(stem, ext, mtime, doc) ==
    [stem |-> stem, ext |-> ext, mtime |-> mtime, doc |-> doc]

Db(mtime) == [exists |-> TRUE, mtime |-> mtime, table |-> TRUE, haskey |-> FALSE,
              value |-> <<>>]

\* workspace.json of a hash of the project C:\p, as the editor writes it
ProjectText == <<"file:///", "c", "%3A", "/", "p">>

WsOf(text) == [exists |-> TRUE, text |-> text]
ChatOf(files) == [exists |-> TRUE, files |-> files]
HashDir(ws, db, chat) == [ws |-> ws, db |-> db, baks |-> {}, chat |-> chat]

\* The hash directories the wizard is run on: without a descriptor; of the
\* project, without or with a database, without or with session files
WizardDirs ==
    {HashDir(NoWs, NoDb, NoChat),
     HashDir(WsOf(ProjectText), NoDb, NoChat),
     HashDir(WsOf(ProjectText), Db(1), NoChat),
     HashDir(WsOf(ProjectText), Db(1), ChatOf({SessionFile("n", "txt", 1, NoDoc)})),
     HashDir(WsOf(ProjectText), Db(MaxTime),
             ChatOf({SessionFile("a", "json", 1, Doc("b", "", 0))})),
     HashDir(WsOf(ProjectText), NoDb, ChatOf({SessionFile("b", "jsonl", 1, NoDoc)}))}
    \cup {HashDir(WsOf(ProjectText), Db(1),
                  ChatOf({SessionFile("a", "json", t, Doc("", "T", 1))})) : t \in Times}

\* What is typed or passed as the workspace path: [raw, kind, doc]
NoWorkspaceDoc == [ok |-> FALSE, isdict |-> FALSE, haslist |-> FALSE, folders |-> <<>>]

NoWorkspaceInput == [raw |-> <<>>, kind |-> "missing", doc |-> NoWorkspaceDoc]

WorkspaceInputs ==
    {[raw |-> <<>>, kind |-> "missing", doc |-> NoWorkspaceDoc],
     [raw |-> <<"\"", "C", ":", "\\", "p", "\"">>, kind |-> "dir",
      doc |-> NoWorkspaceDoc],
     [raw |-> <<"C", ":", "/", "x">>, kind |-> "missing", doc |-> NoWorkspaceDoc],
     [raw |-> <<"C", ":", "\\", "w", ".code-workspace">>, kind |-> "file",
      doc |-> [ok |-> TRUE, isdict |-> TRUE, haslist |-> TRUE,
               folders |-> << [isdict |-> TRUE, uri |-> <<>>, path |-> <<"p">>] >>]]}

\* --needle values, and the keyword typed at the fallback prompt
ExtraNeedleLists == {<<>>, << <<" ">>, <<"x">> >>}
Keywords == {<<>>, <<"P">>, <<"x">>}

\* get_channel_roots() and --channel
ChannelRoots == {<<>>, <<"Code">>, <<"Code", "Code - Insiders">>}
ChannelArgs == {<<>>, <<"Code">>, <<"Code - Insiders">>}

NumberInputs ==
    {[kind |-> "empty", n |-> 0], [kind |-> "junk", n |-> 0]}
    \cup {[kind |-> "int", n |-> n] : n \in 0..(Cardinality(HashIds) + 1)}

Flags ==
    [skip_backup : BOOLEAN, export_md : BOOLEAN, do_reindex : {"None", "True"},
     dry_run : BOOLEAN]

NoCwd == [backup_root |-> FALSE, backups |-> <<>>, md |-> {}]

\* What the operator can type at the selection prompt showing n rows
SelectionInputs(n) ==
    {[kind |-> "enter", n |-> 0, parts |-> <<>>],
     [kind |-> "all", n |-> 0, parts |-> <<>>]}
    \cup {[kind |-> "list", n |-> 0, parts |-> ps] :
            ps \in UNION {[1..k -> (-1)..(n + 1)] : k \in 1..MaxSelLen}}

\* Of what was typed the model keeps the kind, and the keyword of WizFind
NothingTyped == [kind |-> "none", n |-> 0, parts |-> <<>>]
Typed(raw) == [kind |-> raw.kind, n |-> 0, parts |-> <<>>]

-----------------------------------------------------------------------------
(* run_wizard *)

Exit(code) == pc' = "exit" /\ exitCode' = code
Goto(label) == pc' = label /\ exitCode' = exitCode

\* get_channel_roots() and the choice of the channel
WizStart ==
    /\ pc = "start"
    /\ \E roots \in ChannelRoots, channel \in ChannelArgs :
          IF roots # <<>> /\ (channel = <<>> \/ channel[1] \in Range(roots))
          THEN Goto("path")
          ELSE Exit(2)
    /\ UNCHANGED <<wsinput, storage, cwd, args, needles, hashes, target_hash,
                   source_hashes, tmap, rows, default_sel, selected, index, typed>>

\* The workspace path (argument or prompt) and the needles built from it; an
\* exception of the needle builder leaves the process through main() uncaught
WizPath ==
    /\ pc = "path"
    /\ \E inp \in WorkspaceInputs, extra \in ExtraNeedleLists :
          LET b == build_needles_for_workspace_input(
                       resolve_input_path(inp.raw), inp.kind, inp.doc)
          IN /\ wsinput' = inp
             /\ IF inp.raw = <<>>
                THEN Exit(0) /\ needles' = needles
                ELSE IF b.raised
                THEN Exit(1) /\ needles' = needles
                ELSE /\ needles' = b.needles \o NonBlankNeedles(extra)
                     /\ Goto("find")
    /\ UNCHANGED <<storage, cwd, args, hashes, target_hash, source_hashes,
                   tmap, rows, default_sel, selected, index, typed>>

\* find_hashes_by_needles, and the extra-keyword fallback when nothing matches
WizFind ==
    /\ pc = "find"
    /\ LET r == find_hashes_by_needles(storage, needles)
       IN IF r.raised
          THEN Exit(1) /\ hashes' = hashes /\ typed' = typed
          ELSE IF r.hits # <<>>
          THEN Goto("target") /\ hashes' = r.hits /\ typed' = typed
          ELSE \E extra \in Keywords :
                  LET hits2 == IF extra # <<>>
                               THEN find_hashes_by_needles(
                                        storage, Append(needles, extra)).hits
                               ELSE <<>>
                  IN /\ typed' = [kind |-> "keyword", n |-> 0, parts |-> extra]
                     /\ hashes' = hits2
                     /\ IF hits2 # <<>> THEN Goto("target") ELSE Exit(2)
    /\ UNCHANGED <<wsinput, storage, cwd, args, needles, target_hash, source_hashes,
                   tmap, rows, default_sel, selected, index>>

SourceHashesOf(hs, target) ==
    LET src == SelectSeq(hs, LAMBDA h : h.hash # target /\ h.chat_files > 0)
    IN [i \in 1..Len(src) |-> src[i].hash]

\* The destination prompt; source_hashes
WizTarget ==
    /\ pc = "target"
    /\ \E raw \in NumberInputs :
          LET idx == choose_int(raw, 1, 1, Len(hashes))
              t == hashes[idx].hash
          IN /\ typed' = Typed(raw)
             /\ target_hash' = t
             /\ source_hashes' = SourceHashesOf(hashes, t)
             /\ IF SourceHashesOf(hashes, t) = <<>> THEN Exit(0) ELSE Goto("backup")
    /\ needles' = <<>>
    /\ wsinput' = NoWorkspaceInput
    /\ UNCHANGED <<storage, cwd, args, hashes, tmap, rows, default_sel,
                   selected, index>>

\* The backups without the one of the destination
BackupsOfBadSourcesOnly(target, sources) == sources

\* backup_hash of the destination, then of every source, unless skipped
BackupsOf(target, sources) == <<target>> \o sources

WizBackup ==
    /\ pc = "backup"
    /\ cwd' = IF args.skip_backup THEN cwd
              ELSE [cwd EXCEPT !.backup_root = TRUE,
                               !.backups = @ \o BackupsOf(target_hash, source_hashes)]
    /\ typed' = NothingTyped
    /\ Goto("inventory")
    /\ UNCHANGED <<wsinput, storage, args, needles, hashes, target_hash, source_hashes,
                   tmap, rows, default_sel, selected, index>>

RowsOf(inv, tm) ==
    [i \in 1..Len(inv) |-> [n |-> i, it |-> inv[i], st |-> status_for(inv[i], tm)]]

\* A default selection of every row
DefaultSelBadAll(rs) == [i \in 1..Len(rs) |-> rs[i].n]

\* [n for (n, it, st) in rows if st in ("MissingInTarget", "NewerInSource")]
DefaultSel(rs) ==
    LET pick == SelectSeq(rs, LAMBDA r : r.st \in {"MissingInTarget", "NewerInSource"})
    IN [i \in 1..Len(pick) |-> pick[i].n]

\* session_inventory, target_session_map, the rows and the default selection
WizInventory ==
    /\ pc = "inventory"
    /\ LET inv == session_inventory(storage, source_hashes)
           tm == target_session_map(storage, target_hash)
       IN IF inv = <<>>
          THEN Exit(0) /\ UNCHANGED <<tmap, rows, default_sel>>
          ELSE /\ tmap' = tm
               /\ rows' = RowsOf(inv, tm)
               /\ default_sel' = DefaultSel(RowsOf(inv, tm))
               /\ Goto("select")
    /\ UNCHANGED <<wsinput, storage, cwd, args, needles, hashes, target_hash,
                   source_hashes, selected, index, typed>>

\* Dry-run stops here; otherwise the selection prompt
WizSelect ==
    /\ pc = "select"
    /\ IF args.dry_run
       THEN Exit(0) /\ UNCHANGED <<selected, typed>>
       ELSE \E raw \in SelectionInputs(Len(rows)) :
               LET sel == IF raw.kind = "enter" THEN default_sel
                          ELSE parse_selection(raw, Len(rows))
               IN /\ typed' = Typed(raw)
                  /\ selected' = [i \in 1..Len(sel) |-> rows[sel[i]].it]
                  /\ IF sel = <<>> THEN Exit(0) ELSE Goto("mkdir")
    /\ UNCHANGED <<wsinput, storage, cwd, args, needles, hashes, target_hash,
                   source_hashes, tmap, rows, default_sel, index>>

\* target_chat.mkdir(parents=True, exist_ok=True)
WizMkdir ==
    /\ pc = "mkdir"
    /\ storage' = [storage EXCEPT ![target_hash].chat.exists = TRUE]
    /\ typed' = NothingTyped
    /\ Goto("copy")
    /\ UNCHANGED <<wsinput, cwd, args, needles, hashes, target_hash, source_hashes,
                   tmap, rows, default_sel, selected, index>>

\* A copy that leaves the copied file alone in the folder
CopyFileBadReplacesFolder(st, target, it) ==
    [st EXCEPT ![target].chat.files = {FileNamed(st[it.hash].chat.files, it.name)}]

\* shutil.copy2(it.path, target_chat / it.path.name)
CopyFile(st, target, it) ==
    LET src == FileNamed(st[it.hash].chat.files, it.name)
        kept == {g \in st[target].chat.files : <<g.stem, g.ext>> # it.name}
    IN [st EXCEPT ![target].chat.files = kept \cup {src}]

RECURSIVE CopyAll(_, _, _)
CopyAll(st, target, items) ==
    IF items = <<>> THEN st
    ELSE CopyAll(CopyFile(st, target, Head(items)), target, Tail(items))

WizCopy ==
    /\ pc = "copy"
    /\ storage' = CopyAll(storage, target_hash, selected)
    /\ Goto("export")
    /\ UNCHANGED <<wsinput, cwd, args, needles, hashes, target_hash, source_hashes,
                   tmap, rows, default_sel, selected, index, typed>>

\* export_markdown_best_effort of every selected .json session; a file that
\* json.loads rejects is reported and skipped
ExportedIds(st, items) ==
    {items[i].session_id : i \in {j \in 1..Len(items) :
        /\ items[j].ext = "json"
        /\ FileNamed(st[items[j].hash].chat.files, items[j].name).doc.ok}}

WizExport ==
    /\ pc = "export"
    /\ cwd' = IF args.export_md
              THEN [cwd EXCEPT !.md = @ \cup ExportedIds(storage, selected)]
              ELSE cwd
    /\ Goto("ask_reindex")
    /\ UNCHANGED <<wsinput, storage, args, needles, hashes, target_hash, source_hashes,
                   tmap, rows, default_sel, selected, index, typed>>

\* do_reindex: --reindex, or the answer to the yes/no prompt
WizAskReindex ==
    /\ pc = "ask_reindex"
    /\ \E answer \in (IF args.do_reindex = "None" THEN BOOLEAN ELSE {TRUE}) :
          IF answer THEN Goto("reindex_check") ELSE Goto("finish")
    /\ UNCHANGED <<wsinput, storage, cwd, args, needles, hashes, target_hash,
                   source_hashes, tmap, rows, default_sel, selected, index, typed>>

\* "Enter para salir"; return 0
WizFinish ==
    /\ pc = "finish"
    /\ Exit(0)
    /\ UNCHANGED <<wsinput, storage, cwd, args, needles, hashes, target_hash,
                   source_hashes, tmap, rows, default_sel, selected, index, typed>>

-----------------------------------------------------------------------------
(* reindex_state_db(workspace_storage / target_hash) *)

NowTs == MaxTime + 1        \* the time of a write made during the run

\* Only the first of the two checks
ReindexPreconditionsFailBadDbOnly(st, h) == ~DbExists(st, h)

\* The two existence checks; FileNotFoundError leaves the process through
\* main() uncaught (exit status 1)
ReindexPreconditionsFail(st, h) == ~DbExists(st, h) \/ ~ChatExists(st, h)

ReindexCheck ==
    /\ pc = "reindex_check"
    /\ IF ReindexPreconditionsFail(storage, target_hash)
       THEN Exit(1)
       ELSE Goto("reindex_backup")
    /\ UNCHANGED <<wsinput, storage, cwd, args, needles, hashes, target_hash,
                   source_hashes, tmap, rows, default_sel, selected, index, typed>>

\* shutil.copy2(db_path, db_backup)
ReindexBackup ==
    /\ pc = "reindex_backup"
    /\ storage' = [storage EXCEPT ![target_hash].baks = @ \cup {storage[target_hash].db}]
    /\ Goto("reindex_write")
    /\ UNCHANGED <<wsinput, cwd, args, needles, hashes, target_hash, source_hashes,
                   tmap, rows, default_sel, selected, index, typed>>

\* build_index, CREATE TABLE IF NOT EXISTS, the upsert and the commit
ReindexWrite ==
    /\ pc = "reindex_write"
    /\ index' = build_index(storage[target_hash].chat.files)
    /\ storage' = [storage EXCEPT ![target_hash].db =
                      [exists |-> TRUE, mtime |-> NowTs, table |-> TRUE,
                       haskey |-> TRUE,
                       value |-> build_index(storage[target_hash].chat.files).entries]]
    /\ Goto("finish")
    /\ UNCHANGED <<wsinput, cwd, args, needles, hashes, target_hash, source_hashes,
                   tmap, rows, default_sel, selected, typed>>

-----------------------------------------------------------------------------
(* The wizard, run from main() *)

Init ==
    /\ storage \in [HashIds -> WizardDirs]
    /\ args \in Flags
    /\ cwd = NoCwd
    /\ pc = "start"
    /\ exitCode = -1
    /\ needles = <<>>
    /\ hashes = <<>>
    /\ target_hash = ""
    /\ source_hashes = <<>>
    /\ tmap = <<>>
    /\ rows = <<>>
    /\ default_sel = <<>>
    /\ selected = <<>>
    /\ index = NoIndex
    /\ typed = NothingTyped
    /\ wsinput = NoWorkspaceInput

Next ==
    \/ WizStart
    \/ WizPath
    \/ WizFind
    \/ WizTarget
    \/ WizBackup
    \/ WizInventory
    \/ WizSelect
    \/ WizMkdir
    \/ WizCopy
    \/ WizExport
    \/ WizAskReindex
    \/ WizFinish
    \/ ReindexCheck
    \/ ReindexBackup
    \/ ReindexWrite

Spec == Init /\ [][Next]_vars

-----------------------------------------------------------------------------
(* The discovery steps of the wizard on arbitrary descriptors and needles *)

DiscoveryDirs ==
    {HashDir(w, d, NoChat) :
        w \in {NoWs, WsOf(<<"P", "k">>), WsOf(<<"k">>)},
        d \in {NoDb} \cup {Db(t) : t \in Times}}

\* Needle lists with at least one non-blank needle
DiscoveryNeedles ==
    {<< <<"p">> >>, << <<"K">> >>, << <<"p", "K">> >>, << <<"k", "p">> >>,
     << <<" ">>, <<"P">> >>, << <<>>, <<"k", " ">> >>, << <<"p">>, <<"k">> >>,
     << <<"x">>, <<" ", " ">> >>}

InitDiscovery ==
    /\ storage \in [HashIds -> DiscoveryDirs]
    /\ needles \in DiscoveryNeedles
    /\ args = [skip_backup |-> FALSE, export_md |-> FALSE, do_reindex |-> "None",
               dry_run |-> FALSE]
    /\ cwd = NoCwd
    /\ pc = "find"
    /\ exitCode = -1
    /\ hashes = <<>>
    /\ target_hash = ""
    /\ source_hashes = <<>>
    /\ tmap = <<>>
    /\ rows = <<>>
    /\ default_sel = <<>>
    /\ selected = <<>>
    /\ index = NoIndex
    /\ typed = NothingTyped
    /\ wsinput = NoWorkspaceInput

NextDiscovery ==
    \/ WizFind
    \/ WizTarget

SpecDiscovery == InitDiscovery /\ [][NextDiscovery]_vars

-----------------------------------------------------------------------------
(* reindex_state_db called on an arbitrary hash directory *)

ReindexFiles ==
    {SessionFile("a", "json", 1, d) :
        d \in {NoDoc, Doc("", "T", 1), Doc("b", "Tb", 0), Doc("", " ", -1)}}
    \cup {SessionFile("b", "json", 1, d) : d \in {Doc("", "U", 0), Doc("a", "", 1)}}
    \cup {SessionFile("a", "jsonl", t, NoDoc) : t \in Times}
    \cup {SessionFile("b", "jsonl", MaxTime, NoDoc)}

\* Every folder holding at most one file of each name
ReindexChats ==
    {NoChat} \cup
    {ChatOf(fs) : fs \in {S \in SUBSET ReindexFiles :
        \A f, g \in S : (f.stem = g.stem /\ f.ext = g.ext) => f = g}}

\* No database; an empty one; one without ItemTable; one holding an index
ReindexDbs ==
    {NoDb, Db(1), [Db(1) EXCEPT !.table = FALSE],
     [Db(1) EXCEPT !.haskey = TRUE,
                   !.value = build_index({SessionFile("a", "jsonl", 1, NoDoc)}).entries]}

InitReindex ==
    /\ \E d \in ReindexDbs, c \in ReindexChats :
          storage = [h \in HashIds |->
                        IF h = "h1" THEN HashDir(WsOf(ProjectText), d, c)
                        ELSE HashDir(NoWs, NoDb, NoChat)]
    /\ target_hash = "h1"
    /\ pc = "reindex_check"
    /\ args = [skip_backup |-> FALSE, export_md |-> FALSE, do_reindex |-> "True",
               dry_run |-> FALSE]
    /\ cwd = NoCwd
    /\ exitCode = -1
    /\ needles = <<>>
    /\ hashes = <<>>
    /\ source_hashes = <<>>
    /\ tmap = <<>>
    /\ rows = <<>>
    /\ default_sel = <<>>
    /\ selected = <<>>
    /\ index = NoIndex
    /\ typed = NothingTyped
    /\ wsinput = NoWorkspaceInput

NextReindex ==
    \/ ReindexCheck
    \/ ReindexBackup
    \/ ReindexWrite

SpecReindex == InitReindex /\ [][NextReindex]_vars

-----------------------------------------------------------------------------
(* The needle builder called on arbitrary paths and descriptor documents *)

\* The entries of "folders": not an object; an object without uri and path;
\* a blank uri beside a path; a uri; relative and absolute paths; a blank
\* path; a relative path holding U+0000
FolderEntries ==
    {[isdict |-> FALSE, uri |-> <<>>, path |-> <<>>],
     [isdict |-> TRUE, uri |-> <<>>, path |-> <<>>],
     [isdict |-> TRUE, uri |-> <<" ">>, path |-> <<"p">>],
     [isdict |-> TRUE, uri |-> <<" ", "file:///", "c", "%3A", "/", "p">>,
      path |-> <<"q">>],
     [isdict |-> TRUE, uri |-> <<>>, path |-> <<"p">>],
     [isdict |-> TRUE, uri |-> <<>>, path |-> <<"C", ":", "\\", "p">>],
     [isdict |-> TRUE, uri |-> <<>>, path |-> <<"c", ":", "/", "p">>],
     [isdict |-> TRUE, uri |-> <<>>, path |-> <<" ">>],
     [isdict |-> TRUE, uri |-> <<>>, path |-> <<"p", "NUL">>]}

\* Malformed or unreadable; valid JSON that is no object; an object whose
\* "folders" is absent or no list; an object with a list of folders
WorkspaceDocs ==
    {NoWorkspaceDoc,
     [ok |-> TRUE, isdict |-> FALSE, haslist |-> FALSE, folders |-> <<>>],
     [ok |-> TRUE, isdict |-> TRUE, haslist |-> FALSE, folders |-> <<>>]}
    \cup {[ok |-> TRUE, isdict |-> TRUE, haslist |-> TRUE, folders |-> fs] :
            fs \in UNION {[1..k -> FolderEntries] : k \in 0..MaxFolders}}

\* Descriptor files, directories and paths that do not exist
NeedleInputs ==
    {[raw |-> <<"C", ":", "\\", "w", ".code-workspace">>, kind |-> "file",
      doc |-> d] : d \in WorkspaceDocs}
    \cup {[raw |-> r, kind |-> k, doc |-> NoWorkspaceDoc] :
            r \in {<<"C", ":", "\\", "p">>, <<"C", ":", "\\", "P", "\\", "k">>,
                   <<"\"", "C", ":", "/", "a", " ", "p", "\"">>,
                   <<"C", ":", "\\", "w", ".code-workspace">>},
            k \in {"dir", "missing"}}

\* build_needles_for_workspace_input(resolve_input_path(workspace_input))
BuildNeedles ==
    /\ pc = "build"
    /\ LET b == build_needles_for_workspace_input(
                    resolve_input_path(wsinput.raw), wsinput.kind, wsinput.doc)
       IN IF b.raised
          THEN Goto("raised") /\ needles' = needles
          ELSE Goto("built") /\ needles' = b.needles
    /\ UNCHANGED <<wsinput, storage, cwd, args, hashes, target_hash,
                   source_hashes, tmap, rows, default_sel, selected, index, typed>>

\* load_code_workspace_folders(resolve_input_path(workspace_input))
LoadFolders ==
    /\ pc = "load"
    /\ LET fl == load_code_workspace_folders(
                     wsinput.doc, ParentOf(resolve_input_path(wsinput.raw)))
       IN IF fl.raised
          THEN Goto("raised") /\ needles' = needles
          ELSE Goto("loaded") /\ needles' = fl.needles
    /\ UNCHANGED <<wsinput, storage, cwd, args, hashes, target_hash,
                   source_hashes, tmap, rows, default_sel, selected, index, typed>>

InitNeedles ==
    /\ wsinput \in NeedleInputs
    /\ pc \in {"build", "load"}
    /\ pc = "load" => wsinput.kind = "file"
    /\ storage = [h \in HashIds |-> HashDir(NoWs, NoDb, NoChat)]
    /\ args = [skip_backup |-> FALSE, export_md |-> FALSE, do_reindex |-> "None",
               dry_run |-> FALSE]
    /\ cwd = NoCwd
    /\ exitCode = -1
    /\ needles = <<>>
    /\ hashes = <<>>
    /\ target_hash = ""
    /\ source_hashes = <<>>
    /\ tmap = <<>>
    /\ rows = <<>>
    /\ default_sel = <<>>
    /\ selected = <<>>
    /\ index = NoIndex
    /\ typed = NothingTyped

NextNeedles ==
    \/ BuildNeedles
    \/ LoadFolders

SpecNeedles == InitNeedles /\ [][NextNeedles]_vars

-----------------------------------------------------------------------------
(* Properties *)

Statuses == {"MissingInTarget", "NewerInSource", "AlreadyInTarget"}

\* C1: every row of the inventory carries exactly one of the three
\* decisions: MissingInTarget iff the item's session identifier is no key of
\* the destination map, NewerInSource iff it is a key and the item's updated
\* time is strictly greater than the mapped time, AlreadyInTarget iff it is a
\* key and the updated time is less than or equal to the mapped time.
C1_StatusFor ==
    \A i \in 1..Len(rows) :
        LET it == rows[i].it
            st == rows[i].st
            present == it.session_id \in DOMAIN tmap
        IN /\ st \in Statuses
           /\ (st = "MissingInTarget") <=> ~present
           /\ (st = "NewerInSource") <=> (present /\ it.updated > tmap[it.session_id])
           /\ (st = "AlreadyInTarget") <=> (present /\ it.updated <= tmap[it.session_id])

\* A row whose updated time equals the mapped time, beside a missing one
C1_Witness ==
    /\ \E i \in 1..Len(rows) :
          /\ rows[i].st = "AlreadyInTarget"
          /\ rows[i].it.updated = tmap[rows[i].it.session_id]
    /\ \E i \in 1..Len(rows) : rows[i].st = "MissingInTarget"

\* C2: the default selection is exactly the rows decided MissingInTarget or
\* NewerInSource, and it is what Enter copies; an AlreadyInTarget row is never
\* in it, yet its row number is picked by 'all' and by a list naming it.
C2_DefaultSelection ==
    Len(rows) > 0 =>
        LET n == Len(rows)
            wanted == {i \in 1..n : rows[i].st \in {"MissingInTarget", "NewerInSource"}}
        IN /\ Range(default_sel) = wanted
           /\ Len(default_sel) = Cardinality(wanted)
           /\ \A i \in 1..n : rows[i].n = i
           /\ \A i \in 1..n :
                 rows[i].st = "AlreadyInTarget" =>
                    /\ i \notin Range(default_sel)
                    /\ i \in Range(parse_selection(
                                 [kind |-> "all", n |-> 0, parts |-> <<>>], n))
                    /\ parse_selection(
                           [kind |-> "list", n |-> 0, parts |-> <<i>>], n) = <<i>>
           /\ (pc = "mkdir" /\ typed.kind = "enter") =>
                 selected = [k \in 1..Len(default_sel) |-> rows[default_sel[k]].it]
           /\ (pc = "mkdir" /\ typed.kind = "all") =>
                 selected = [k \in 1..n |-> rows[k].it]

\* Enter was pressed with one row already in the destination and one not
C2_Witness ==
    /\ pc = "mkdir"
    /\ typed.kind = "enter"
    /\ \E i \in 1..Len(rows) : rows[i].st = "AlreadyInTarget"
    /\ \E i \in 1..Len(rows) : rows[i].st = "MissingInTarget"
    /\ Len(selected) = 1

\* The destination and every source are in backups/, each once
BackupsComplete ==
    /\ cwd.backup_root
    /\ Range(cwd.backups) = {target_hash} \cup Range(source_hashes)
    /\ Len(cwd.backups) = Cardinality(Range(cwd.backups))

\* C3: when backup is not skipped, every step that changes the storage (the
\* creation of the destination session folder, a copy, a reindex write) is
\* taken with the destination and every source hash already backed up, each
\* exactly once, and no backup is made after the first of them.
C3_BackupBeforeMutation ==
    [][(~args.skip_backup /\ storage' # storage)
            => (BackupsComplete /\ cwd'.backups = cwd.backups)]_vars

\* The copy is done, of two sources, with backups
C3_Witness ==
    /\ ~args.skip_backup
    /\ pc = "export"
    /\ Len(source_hashes) = 2
    /\ BackupsComplete

\* C4: a dry-run invocation changes nothing: no backup directory or file, no
\* copy, no session folder, no database write.
C4_DryRunMutatesNothing ==
    [][args.dry_run => (storage' = storage /\ cwd' = cwd)]_vars

Names(files) == {<<f.stem, f.ext>> : f \in files}

\* Only the destination changes, and nothing of any hash directory goes away
OnlyTargetGrows ==
    /\ \A h \in HashIds : h # target_hash => storage'[h] = storage[h]
    /\ \A i \in 1..Len(source_hashes) :
          storage'[source_hashes[i]] = storage[source_hashes[i]]
    /\ \A h \in HashIds :
          /\ storage'[h].ws = storage[h].ws
          /\ storage[h].db.exists => storage'[h].db.exists
          /\ storage[h].chat.exists => storage'[h].chat.exists
          /\ Names(storage[h].chat.files) \subseteq Names(storage'[h].chat.files)
          /\ storage[h].baks \subseteq storage'[h].baks

\* C5 as stated: across a run every source hash directory is unchanged,
\* nothing is deleted, and in the destination only files of chatSessions and
\* state.vscdb are created or modified.
C5_OnlyChatAndDbWritten ==
    [][OnlyTargetGrows
        /\ \A h \in HashIds : storage'[h].baks = storage[h].baks]_vars

\* C5 amended: across a run every source hash directory is unchanged, nothing
\* is deleted, and in the destination only files of chatSessions, state.vscdb
\* and the copy state.vscdb.bak-<stamp> that the reindex makes of the
\* database are created or modified.
C5_OnlyChatDbAndDbBackupWritten ==
    [][OnlyTargetGrows
        /\ \A h \in HashIds :
              storage'[h].baks \subseteq storage[h].baks \cup {storage[h].db}]_vars

\* A run that copied, exported and reindexed
C5_Witness ==
    /\ pc = "finish"
    /\ storage[target_hash].baks # {}
    /\ storage[target_hash].db.haskey
    /\ cwd.md # {}
    /\ Cardinality(storage[target_hash].chat.files) = 2

-----------------------------------------------------------------------------

SameLetter(a, b) == LowerTok(a) = LowerTok(b)

OccursIgnoringCase(n, text) ==
    \E i \in 0..(Len(text) - Len(n)) : \A j \in 1..Len(n) : SameLetter(text[i + j], n[j])

\* The needles of the last search: with the keyword typed at the fallback
SearchedNeedles ==
    IF typed.kind = "keyword" /\ Len(typed.parts) > 0
    THEN Append(needles, typed.parts)
    ELSE needles

\* C6: after a search with at least one non-blank needle, the hashes returned
\* are exactly the directories that have a workspace.json whose text holds a
\* non-blank needle as a case-insensitive substring, each once; a directory
\* without workspace.json is never among them.
C6_FindHashes ==
    (Len(needles) > 0 /\ (pc = "target" \/ (pc = "exit" /\ exitCode = 2))) =>
        LET ns == SearchedNeedles
        IN /\ {hashes[i].hash : i \in 1..Len(hashes)} =
                {h \in HashIds :
                    /\ storage[h].ws.exists
                    /\ \E k \in 1..Len(ns) :
                          /\ ~IsBlankStr(ns[k])
                          /\ OccursIgnoringCase(ns[k], storage[h].ws.text)}
           /\ Len(hashes) = Cardinality({hashes[i].hash : i \in 1..Len(hashes)})

\* A match that differs in case, beside a directory without descriptor
C6_Witness ==
    /\ pc = "target"
    /\ needles = << <<"p", "K">> >>
    /\ Len(hashes) = 2
    /\ \E h \in HashIds : ~storage[h].ws.exists

ScanIndex(h) == CHOOSE i \in 1..Len(ScanOrder) : ScanOrder[i] = h

\* C7: the hashes returned are ordered by database modification time,
\* descending, the hashes without database after all those with one; hashes
\* with equal times, or both without database, keep their scan order; and the
\* destination taken when the operator presses Enter is the first of them.
C7_Ranking ==
    Len(hashes) > 0 =>
        /\ \A i, j \in 1..Len(hashes) :
              i < j =>
                 LET a == storage[hashes[i].hash].db
                     b == storage[hashes[j].hash].db
                 IN /\ b.exists => a.exists
                    /\ (a.exists /\ b.exists) => a.mtime >= b.mtime
                    /\ (a.exists = b.exists /\ (a.exists => a.mtime = b.mtime))
                          => ScanIndex(hashes[i].hash) < ScanIndex(hashes[j].hash)
        /\ (typed.kind = "empty" /\ target_hash # "") => target_hash = hashes[1].hash

\* Three hashes, the first two with equal times, the last without database,
\* and Enter pressed at the destination prompt
C7_Witness ==
    /\ Len(hashes) = 3
    /\ typed.kind = "empty"
    /\ target_hash = hashes[1].hash
    /\ storage[hashes[1].hash].db.exists
    /\ storage[hashes[2].hash].db = storage[hashes[1].hash].db
    /\ ~storage[hashes[3].hash].db.exists

\* C8: every run of the wizard ends with exit status 0 or 2.
C8_ExitCodes == pc = "exit" => exitCode \in {0, 2}

-----------------------------------------------------------------------------

\* C9: reindex_state_db on a hash directory without state.vscdb or without
\* chatSessions ends in the error and changes nothing; when both exist, the
\* database is written only after a copy of it was saved beside it.
C9_ReindexPreconditions ==
    [][/\ (pc = "reindex_check"
              /\ (~storage[target_hash].db.exists \/ ~storage[target_hash].chat.exists))
          => (pc' = "exit" /\ exitCode' = 1 /\ storage' = storage /\ cwd' = cwd)
       /\ pc = "exit" => storage' = storage
       /\ storage'[target_hash].db # storage[target_hash].db
          => (pc = "reindex_write"
                /\ storage[target_hash].db \in storage[target_hash].baks)]_vars

\* The call failed on a directory with a database and no session folder
C9_Witness ==
    /\ pc = "exit"
    /\ exitCode = 1
    /\ storage[target_hash].db.exists
    /\ ~storage[target_hash].chat.exists
    /\ storage[target_hash].baks = {}

DerivedId(f) == IF f.doc.ok /\ f.doc.sessionId # "" THEN f.doc.sessionId ELSE f.stem

\* C10: build_index reads every .json file before any .jsonl file; its keys
\* are the identifiers derived by the .json files and the stems of the .jsonl
\* files; a key derived by a .json file carries the entry of a .json file
\* deriving it, and only a key no .json file derives carries the defaults of
\* the .jsonl file of that stem.
C10_BuildIndex ==
    pc = "finish" =>
        LET files == storage[target_hash].chat.files
            jsons == {f \in files : f.ext = "json"}
            jsonls == {f \in files : f.ext = "jsonl"}
            ord == index.order
            entries == index.entries
        IN /\ Range(ord) = Names(jsons \cup jsonls)
           /\ Len(ord) = Cardinality(jsons \cup jsonls)
           /\ \A i, j \in 1..Len(ord) :
                 (ord[i][2] = "json" /\ ord[j][2] = "jsonl") => i < j
           /\ DOMAIN entries = {DerivedId(f) : f \in jsons} \cup {f.stem : f \in jsonls}
           /\ \A id \in DOMAIN entries :
                 IF \E f \in jsons : DerivedId(f) = id
                 THEN \E f \in jsons :
                         /\ DerivedId(f) = id
                         /\ entries[id].sessionId = id
                         /\ entries[id].title = JsonEntry(f).title
                         /\ entries[id].isEmpty = (f.doc.ok /\ f.doc.requests = 0)
                         /\ entries[id].lastMessageDate = f.mtime * MsPerSecond
                 ELSE \E f \in jsonls :
                         /\ f.stem = id
                         /\ entries[id] = [sessionId |-> id, title |-> "New Chat",
                                           lastMessageDate |-> f.mtime * MsPerSecond,
                                           isEmpty |-> FALSE, isExternal |-> FALSE]
           /\ storage[target_hash].db.haskey
           /\ DOMAIN storage[target_hash].db.value = DOMAIN entries
           /\ \A id \in DOMAIN entries : storage[target_hash].db.value[id] = entries[id]

\* a.json titled "T" and the newer a.jsonl: the entry "a" is the .json's
C10_Witness ==
    /\ pc = "finish"
    /\ \E f, g \in storage[target_hash].chat.files :
          /\ f.ext = "json" /\ g.ext = "jsonl"
          /\ DerivedId(f) = g.stem
          /\ f.mtime < g.mtime
          /\ index.entries[g.stem].title = "T"
          /\ index.entries[g.stem].lastMessageDate = f.mtime * MsPerSecond

-----------------------------------------------------------------------------

NoRepeats(s) == \A i, j \in 1..Len(s) : s[i] = s[j] => i = j

\* C11: for every input path (descriptor file, directory, path that does not
\* exist) the needle list returned by build_needles_for_workspace_input holds
\* no string twice, and is in emission order: the path first, then its
\* forward-slash form.
C11_NeedlesUnique ==
    pc = "built" =>
        /\ NoRepeats(needles)
        /\ needles[1] = resolve_input_path(wsinput.raw)
        /\ needles[2] = ReplaceBackslash(resolve_input_path(wsinput.raw))

\* The entry i of "folders" has a needle of its own in the result
Contributes(i) ==
    \E k \in 1..Len(needles) :
        needles[k] \in Range(FolderNeedles(
                                wsinput.doc.folders[i],
                                ParentOf(resolve_input_path(wsinput.raw))).needles)

\* C12: load_code_workspace_folders never raises; when the file parses to an
\* object with a "folders" list, every entry of the list contributes at least
\* one needle to the result; when the content is malformed, no object, or
\* "folders" is absent or no list, the result is the empty list.
C12_LoadFolders ==
    /\ pc # "raised"
    /\ pc = "loaded" =>
          IF wsinput.doc.ok /\ wsinput.doc.isdict /\ wsinput.doc.haslist
          THEN \A i \in 1..Len(wsinput.doc.folders) : Contributes(i)
          ELSE needles = <<>>

-----------------------------------------------------------------------------

\* C13: the copy loop loses no destination session: every session identifier
\* that is a key of target_session_map of the destination before the loop is
\* a key of it after the loop, also when a copied file has the name of a
\* destination file holding another identifier.
C13_CopyKeepsTargetIds ==
    [][pc = "copy" =>
          DOMAIN target_session_map(storage, target_hash)
             \subseteq DOMAIN target_session_map(storage', target_hash)]_vars

\* The items of the default selection, in row order
DefaultItems == [k \in 1..Len(default_sel) |-> rows[default_sel[k]].it]

\* C14: after the copy of every MissingInTarget and NewerInSource row in row
\* order, target_session_map and status_for recomputed over the same source
\* inventory decide AlreadyInTarget for every source session, for any number
\* of source hashes.
C14_ReconciliationConverges ==
    (pc = "export" /\ selected = DefaultItems) =>
        \A i \in 1..Len(rows) :
            status_for(rows[i].it, target_session_map(storage, target_hash))
                = "AlreadyInTarget"

====
